---- MODULE Spec2Model ----
(***************************************************************************)
(* Green wall irrigation controller (green_wall_code.ino).                 *)
(*                                                                         *)
(* The sketch is one thread: setup() runs once, then loop() repeats.  The  *)
(* model follows the program counter through the calls of setup() and      *)
(* loop(); the hardware (DS1307 clock, DHT11, rain sensor, relay pin, LCD) *)
(* is the environment.  A calendar date is abstracted to a day number;     *)
(* DateTime keeps its fields (date, hh, mm, ss) and the RTClib operations  *)
(* the sketch uses (construction from fields, + TimeSpan, <, >=) are       *)
(* computed on those fields.                                               *)
(***************************************************************************)
EXTENDS Integers, Sequences, FiniteSets, TLC

VARIABLES
    pc,               \* the call of setup()/loop() that runs next
    iter,             \* completed loop() iterations
    PresentationMode, \* the mode flag of line 18 (true there); either build
    rtcPresent,       \* DS1307_rtc.begin() succeeds
    rtcAtBoot,        \* what the DS1307 held at power-up: running or unset, its time
    rtc,              \* the DS1307's time, in seconds since day 0 00:00:00
    buildTime,        \* DateTime(F(__DATE__), F(__TIME__))
    GW,               \* the Green_Wall_state instance
    relay,            \* level last written to PUMP_RELAY_SIGNAL_PIN
    lcdRow0, lcdRow1, \* the two rows of the LCD
    dht,              \* what the DHT11 returned at the last read
    rainValue,        \* what analogRead(RAIN_SIGNAL_PIN) returned last
    rainIndicator,    \* what isRainGoing() answered in the last managePump
    probe             \* the last direct call of the decision functions

vars == <<pc, iter, PresentationMode, rtcPresent, rtcAtBoot, rtc, buildTime,
          GW, relay, lcdRow0, lcdRow1, dht, rainValue, rainIndicator, probe>>

----------------------------------------------------------------------------
(* Bounds of the model *)

\* loop() iterations explored
MaxIter == 4
\* seconds the clock advances over one loop() iteration: 1..MaxElapse
MaxElapse == 2
\* valid DHT11 readings are 1..MaxReading
MaxReading == 1
\* durations tried on isInWateringWindow: 0..MaxDur, and one and two hours
MaxDur == 5
\* minutes of the hour tried on the decision functions: 0..MaxMinute, and 59
MaxMinute == 5
\* calendar dates tried on the decision functions: 0..MaxDay
MaxDay == 1
\* analog values the rain sensor returns: 0..MaxRain
MaxRain == 1

(* Program constants *)
MorningHour == 6
MiddayHour == 13
EveningHour == 21
WateringMinutes == 5
LoopDelaySeconds == 1

\* a float of the DHT library: a number, or not-a-number
Float(v) == [nan |-> FALSE, v |-> v]
NaN == [nan |-> TRUE, v |-> 0]
Hours == 0..23

----------------------------------------------------------------------------
(* RTClib's DateTime and TimeSpan, as the sketch uses them *)

\* DateTime(year, month, day, hour, min, sec): the fields are stored as given
DateTimeOf(date, hh, mm, ss) == [date |-> date, hh |-> hh, mm |-> mm, ss |-> ss]

\* DateTime::unixtime(), counted from day 0
unixtime(dt) == ((dt.date * 24 + dt.hh) * 60 + dt.mm) * 60 + dt.ss

\* DateTime(uint32_t t): seconds broken into fields
DateTimeFromSeconds(t) ==
    [date |-> t \div 86400, hh |-> (t \div 3600) % 24,
     mm |-> (t \div 60) % 60, ss |-> t % 60]

\* TimeSpan(days, hours, minutes, seconds): a number of seconds (the
\* durations tried stay within the width of the library's minutes parameter)
TimeSpan(days, hours, minutes, seconds) ==
    days * 86400 + hours * 3600 + minutes * 60 + seconds

\* DateTime::operator+(TimeSpan)
DateTimePlus(dt, span) == DateTimeFromSeconds(unixtime(dt) + span)

\* DateTime::operator<: field by field, most significant first
DateTimeLess(a, b) ==
    \/ a.date < b.date
    \/ /\ a.date = b.date
       /\ \/ a.hh < b.hh
          \/ /\ a.hh = b.hh
             /\ \/ a.mm < b.mm
                \/ a.mm = b.mm /\ a.ss < b.ss

\* DateTime::operator>=
DateTimeGreaterEq(a, b) == ~DateTimeLess(a, b)

----------------------------------------------------------------------------
(* The watering decision *)

\* analogRead(RAIN_SIGNAL_PIN) wired into the answer
isRainGoing_FromSensor == rainValue > 0

isRainGoing == FALSE

\* the window of the day before also counted
isInWateringWindow_Wraps(currentTime, startHour, durationMinutes) ==
    LET startTime == DateTimeOf(currentTime.date, startHour, 0, 0)
        startBefore == DateTimeOf(currentTime.date - 1, startHour, 0, 0)
        duration == TimeSpan(0, 0, durationMinutes, 0)
    IN  \/ /\ DateTimeGreaterEq(currentTime, startTime)
           /\ DateTimeLess(currentTime, DateTimePlus(startTime, duration))
        \/ /\ DateTimeGreaterEq(currentTime, startBefore)
           /\ DateTimeLess(currentTime, DateTimePlus(startBefore, duration))

isInWateringWindow_InclusiveEnd(currentTime, startHour, durationMinutes) ==
    LET startTime == DateTimeOf(currentTime.date, startHour, 0, 0)
        duration == TimeSpan(0, 0, durationMinutes, 0)
        endTime == DateTimePlus(startTime, duration)
    IN  DateTimeGreaterEq(currentTime, startTime)
        /\ ~DateTimeLess(endTime, currentTime)

isInWateringWindow(currentTime, startHour, durationMinutes) ==
    LET startTime == DateTimeOf(currentTime.date, startHour, 0, 0)
        duration == TimeSpan(0, 0, durationMinutes, 0)
        endTime == DateTimePlus(startTime, duration)
    IN  DateTimeGreaterEq(currentTime, startTime)
        /\ DateTimeLess(currentTime, endTime)

DecideIfWateringRequired_NoEvening(state) ==
    LET morningWindow == isInWateringWindow(state.currentDateTime,
                             state.morningWateringDateTime,
                             state.minutesOfWateringDuration)
        middleWindow == isInWateringWindow(state.currentDateTime,
                             state.middleWateringDateTime,
                             state.minutesOfWateringDuration)
    IN  [state EXCEPT !.isPumpWorking = morningWindow \/ middleWindow]

\* The value of GW after DecideIfWateringRequired() ran on the value `state`
DecideIfWateringRequired(state) ==
    LET morningWindow == isInWateringWindow(state.currentDateTime,
                             state.morningWateringDateTime,
                             state.minutesOfWateringDuration)
        middleWindow == isInWateringWindow(state.currentDateTime,
                             state.middleWateringDateTime,
                             state.minutesOfWateringDuration)
        eveningWindow == isInWateringWindow(state.currentDateTime,
                             state.eveningWateringDateTime,
                             state.minutesOfWateringDuration)
    IN  [state EXCEPT !.isPumpWorking =
             morningWindow \/ middleWindow \/ eveningWindow]

PumpOn == relay' = "HIGH"

PumpOff == relay' = "LOW"

managePumpPresentationMode_OffByOne ==
    LET now == GW.currentDateTime
        sec_mod == now.ss % 10
    IN  /\ IF sec_mod <= 5 THEN PumpOn ELSE PumpOff
        /\ UNCHANGED <<GW, rainIndicator>>

managePumpPresentationMode ==
    LET now == GW.currentDateTime
        sec_mod == now.ss % 10
    IN  /\ IF sec_mod < 5 THEN PumpOn ELSE PumpOff
        /\ UNCHANGED <<GW, rainIndicator>>

\* managePump(), `rain` being what its call of isRainGoing() returns
managePump(rain) ==
    /\ rainIndicator' = rain
    /\ IF rain
       THEN /\ GW' = [GW EXCEPT !.isPumpWorking = FALSE]
            /\ UNCHANGED relay
       ELSE /\ GW' = DecideIfWateringRequired(GW)
            /\ IF GW'.isPumpWorking THEN PumpOn ELSE PumpOff

----------------------------------------------------------------------------
(* Initial state: the globals as constructed, the hardware as found *)

\* Build times tried: shortly before a window opens or closes, before
\* midnight, and at seconds that walk through a 10-second block
StartTimes ==
    { DateTimeOf(0, h, m, s) : h \in {5, 6, 12, 13, 20, 21, 23},
                               m \in {4, 59}, s \in {3, 8, 58} }

\* A time the DS1307 kept from an earlier run
PriorClockTimes == { unixtime(DateTimeOf(1, 9, 30, 0)) }

GWInit ==
    [isPumpWorking |-> FALSE,
     currentDateTime |-> DateTimeOf(0, 0, 0, 0),
     humidity |-> Float(0),
     temperatureC |-> Float(0),
     morningWateringDateTime |-> 0,
     middleWateringDateTime |-> 0,
     eveningWateringDateTime |-> 0,
     minutesOfWateringDuration |-> 0]

NoProbe == [op |-> "none"]

\* what a row of the LCD shows: the text printed and the values put into it
LcdText(fmt, args) == [fmt |-> fmt, args |-> args]

Init ==
    /\ pc = "initializeRTC"
    /\ iter = 0
    /\ PresentationMode \in BOOLEAN
    /\ rtcPresent \in BOOLEAN
    /\ rtcAtBoot \in (IF rtcPresent
                      THEN {[running |-> FALSE, time |-> 0]} \cup
                           {[running |-> TRUE, time |-> t] : t \in PriorClockTimes}
                      ELSE {[running |-> FALSE, time |-> 0]})
    /\ rtc = rtcAtBoot.time
    /\ buildTime \in StartTimes
    /\ GW = GWInit
    /\ relay = "FLOATING"
    /\ lcdRow0 = LcdText("", <<>>)
    /\ lcdRow1 = LcdText("", <<>>)
    /\ dht = [h |-> NaN, t |-> NaN]
    /\ rainValue = 0
    /\ rainIndicator = FALSE
    /\ probe = NoProbe

----------------------------------------------------------------------------
(* setup() *)

initializeRTC_NoHalt ==
    /\ pc = "initializeRTC"
    /\ pc' = "initializeSensors"
    /\ rtc' = unixtime(buildTime)
    /\ UNCHANGED <<iter, PresentationMode, rtcPresent, rtcAtBoot, buildTime, GW,
                   relay, lcdRow0, lcdRow1, dht, rainValue, rainIndicator, probe>>

initializeRTC_AdjustIfUnset ==
    /\ pc = "initializeRTC"
    /\ IF ~rtcPresent
       THEN /\ pc' = "halt"
            /\ UNCHANGED rtc
       ELSE /\ pc' = "initializeSensors"
            /\ IF rtcAtBoot.running
               THEN UNCHANGED rtc
               ELSE rtc' = unixtime(buildTime)
    /\ UNCHANGED <<iter, PresentationMode, rtcPresent, rtcAtBoot, buildTime, GW,
                   relay, lcdRow0, lcdRow1, dht, rainValue, rainIndicator, probe>>

initializeRTC ==
    /\ pc = "initializeRTC"
    /\ IF ~rtcPresent
       THEN /\ pc' = "halt"
            /\ UNCHANGED rtc
       ELSE /\ pc' = "initializeSensors"
            /\ rtc' = unixtime(buildTime)
    /\ UNCHANGED <<iter, PresentationMode, rtcPresent, rtcAtBoot, buildTime, GW,
                   relay, lcdRow0, lcdRow1, dht, rainValue, rainIndicator, probe>>

\* while(1); of initializeRTC
Halt ==
    /\ pc = "halt"
    /\ UNCHANGED vars

initializeSensors_RelayHigh ==
    /\ pc = "initializeSensors"
    /\ pc' = "initializeLCD"
    /\ relay' = "HIGH"
    /\ UNCHANGED <<iter, PresentationMode, rtcPresent, rtcAtBoot, rtc, buildTime,
                   GW, lcdRow0, lcdRow1, dht, rainValue, rainIndicator, probe>>

initializeSensors ==
    /\ pc = "initializeSensors"
    /\ pc' = "initializeLCD"
    /\ relay' = "LOW"
    /\ UNCHANGED <<iter, PresentationMode, rtcPresent, rtcAtBoot, rtc, buildTime,
                   GW, lcdRow0, lcdRow1, dht, rainValue, rainIndicator, probe>>

initializeLCD ==
    /\ pc = "initializeLCD"
    /\ pc' = "setupConfig"
    /\ lcdRow0' = LcdText("   GREEN WALL   ", <<>>)
    /\ lcdRow1' = LcdText("                ", <<>>)
    /\ UNCHANGED <<iter, PresentationMode, rtcPresent, rtcAtBoot, rtc, buildTime,
                   GW, relay, dht, rainValue, rainIndicator, probe>>

\* the assignments that end setup()
setupConfig ==
    /\ pc = "setupConfig"
    /\ pc' = "readAndDisplayCurrentTime"
    /\ GW' = [GW EXCEPT !.morningWateringDateTime = MorningHour,
                        !.middleWateringDateTime = MiddayHour,
                        !.eveningWateringDateTime = EveningHour,
                        !.minutesOfWateringDuration = WateringMinutes,
                        !.isPumpWorking = FALSE]
    /\ UNCHANGED <<iter, PresentationMode, rtcPresent, rtcAtBoot, rtc, buildTime,
                   relay, lcdRow0, lcdRow1, dht, rainValue, rainIndicator, probe>>

----------------------------------------------------------------------------
(* loop() *)

\* sprintf(" %.2d %s %.2d:%.2d:%.2d", ...): the fields row 0 shows
displayTimeOnLCD(now) ==
    LcdText(" %.2d %s %.2d:%.2d:%.2d", <<now.date, now.hh, now.mm, now.ss>>)

\* sprintf(" H: %.2f%% T: %.2f C", ...): the fields row 1 shows
displayDHT11OnLCD(humidity, temperatureC) ==
    LcdText(" H: %.2f%% T: %.2f C", <<humidity.v, temperatureC.v>>)

readAndDisplayCurrentTime_NoStore ==
    /\ pc = "readAndDisplayCurrentTime"
    /\ iter < MaxIter
    /\ pc' = "managePump"
    /\ LET now == DateTimeFromSeconds(rtc)
       IN  lcdRow0' = displayTimeOnLCD(now)
    /\ UNCHANGED <<iter, PresentationMode, rtcPresent, rtcAtBoot, rtc, buildTime,
                   GW, relay, lcdRow1, dht, rainValue, rainIndicator, probe>>

readAndDisplayCurrentTime ==
    /\ pc = "readAndDisplayCurrentTime"
    /\ iter < MaxIter
    /\ pc' = "managePump"
    /\ LET now == DateTimeFromSeconds(rtc)
       IN  /\ lcdRow0' = displayTimeOnLCD(now)
           /\ GW' = [GW EXCEPT !.currentDateTime = now]
    /\ UNCHANGED <<iter, PresentationMode, rtcPresent, rtcAtBoot, rtc, buildTime,
                   relay, lcdRow1, dht, rainValue, rainIndicator, probe>>

\* the if (PresentationMode) ... else ... of loop(); the call of line 143
\* lacks its semicolon and is modelled as the statement it stands for
PumpStep(rain) ==
    /\ pc = "managePump"
    /\ pc' = "readAndDisplayDHT11"
    /\ IF PresentationMode THEN managePumpPresentationMode ELSE managePump(rain)
    /\ UNCHANGED <<iter, PresentationMode, rtcPresent, rtcAtBoot, rtc, buildTime,
                   lcdRow0, lcdRow1, dht, rainValue, probe>>

isnan(x) == x.nan

DHTReadings == { Float(v) : v \in 1..MaxReading } \cup {NaN}

readAndDisplayDHT11_StoreValid ==
    /\ pc = "readAndDisplayDHT11"
    /\ pc' = "readAndDisplayRainSensor"
    /\ \E humidity \in DHTReadings, temperatureC \in DHTReadings :
          /\ dht' = [h |-> humidity, t |-> temperatureC]
          /\ IF isnan(temperatureC) /\ isnan(humidity)
             THEN UNCHANGED <<lcdRow1, GW>>
             ELSE /\ lcdRow1' = displayDHT11OnLCD(humidity, temperatureC)
                  /\ GW' = [GW EXCEPT !.humidity = humidity,
                                      !.temperatureC = temperatureC]
    /\ UNCHANGED <<iter, PresentationMode, rtcPresent, rtcAtBoot, rtc, buildTime,
                   relay, lcdRow0, rainValue, rainIndicator, probe>>

readAndDisplayDHT11 ==
    /\ pc = "readAndDisplayDHT11"
    /\ pc' = "readAndDisplayRainSensor"
    /\ \E humidity \in DHTReadings, temperatureC \in DHTReadings :
          /\ dht' = [h |-> humidity, t |-> temperatureC]
          /\ IF isnan(temperatureC) \/ isnan(humidity)
             THEN UNCHANGED <<lcdRow1, GW>>
             ELSE /\ lcdRow1' = displayDHT11OnLCD(humidity, temperatureC)
                  /\ GW' = [GW EXCEPT !.humidity = humidity,
                                      !.temperatureC = temperatureC]
    /\ UNCHANGED <<iter, PresentationMode, rtcPresent, rtcAtBoot, rtc, buildTime,
                   relay, lcdRow0, rainValue, rainIndicator, probe>>

readAndDisplayRainSensor ==
    /\ pc = "readAndDisplayRainSensor"
    /\ pc' = "delay"
    /\ rainValue' \in 0..MaxRain
    /\ UNCHANGED <<iter, PresentationMode, rtcPresent, rtcAtBoot, rtc, buildTime,
                   GW, relay, lcdRow0, lcdRow1, dht, rainIndicator, probe>>

\* delay(1000): the iteration ends; the clock has moved on by at least a second
delay ==
    /\ pc = "delay"
    /\ pc' = "readAndDisplayCurrentTime"
    /\ iter' = iter + 1
    /\ \E elapsed \in LoopDelaySeconds..MaxElapse : rtc' = rtc + elapsed
    /\ UNCHANGED <<PresentationMode, rtcPresent, rtcAtBoot, buildTime, GW, relay,
                   lcdRow0, lcdRow1, dht, rainValue, rainIndicator, probe>>

loop_managePump == PumpStep(isRainGoing)

Next ==
    \/ initializeRTC
    \/ Halt
    \/ initializeSensors
    \/ initializeLCD
    \/ setupConfig
    \/ readAndDisplayCurrentTime
    \/ loop_managePump
    \/ readAndDisplayDHT11
    \/ readAndDisplayRainSensor
    \/ delay

Spec == Init /\ [][Next]_vars

----------------------------------------------------------------------------
(* Scenario C of the testable properties: the rain indicator forced.  The  *)
(* program is the same, but the call of isRainGoing() in managePump may    *)
(* answer either way.                                                      *)

loop_managePumpRainForced == \E rain \in BOOLEAN : PumpStep(rain)

NextRainForced ==
    \/ initializeRTC
    \/ Halt
    \/ initializeSensors
    \/ initializeLCD
    \/ setupConfig
    \/ readAndDisplayCurrentTime
    \/ loop_managePumpRainForced
    \/ readAndDisplayDHT11
    \/ readAndDisplayRainSensor
    \/ delay

SpecRainForced == Init /\ [][NextRainForced]_vars

----------------------------------------------------------------------------
(* The decision functions called directly, once setup() has returned, on   *)
(* timestamps, start hours and durations drawn from bounded sets.          *)

ProbeTimes ==
    { DateTimeOf(d, h, m, s) : d \in 0..MaxDay, h \in Hours,
                               m \in (0..MaxMinute) \cup {59}, s \in {0, 59} }

ProbeDurations == (0..MaxDur) \cup {60, 120}

InitProbe ==
    /\ Init
    /\ rtcPresent
    /\ ~rtcAtBoot.running
    /\ ~PresentationMode
    /\ buildTime = DateTimeOf(0, 5, 59, 58)

\* setup() has returned and nothing has been called yet
setupDone == pc = "readAndDisplayCurrentTime" /\ iter = 0 /\ probe = NoProbe

probeIsInWateringWindow ==
    /\ setupDone
    /\ \E t \in ProbeTimes, H \in Hours, D \in ProbeDurations :
          probe' = [op |-> "isInWateringWindow",
                    currentTime |-> t, startHour |-> H, durationMinutes |-> D,
                    result |-> isInWateringWindow(t, H, D)]
    /\ UNCHANGED <<pc, iter, PresentationMode, rtcPresent, rtcAtBoot, rtc,
                   buildTime, GW, relay, lcdRow0, lcdRow1, dht, rainValue,
                   rainIndicator>>

probeDecideIfWateringRequired ==
    /\ setupDone
    /\ \E t \in ProbeTimes :
          LET before == [GW EXCEPT !.currentDateTime = t]
          IN  probe' = [op |-> "DecideIfWateringRequired",
                        before |-> before,
                        after |-> DecideIfWateringRequired(before)]
    /\ UNCHANGED <<pc, iter, PresentationMode, rtcPresent, rtcAtBoot, rtc,
                   buildTime, GW, relay, lcdRow0, lcdRow1, dht, rainValue,
                   rainIndicator>>

NextProbe ==
    \/ initializeRTC
    \/ initializeSensors
    \/ initializeLCD
    \/ setupConfig
    \/ probeIsInWateringWindow
    \/ probeDecideIfWateringRequired

SpecProbe == InitProbe /\ [][NextProbe]_vars

----------------------------------------------------------------------------
(* What the claims are stated in: the time of day, in seconds, and the     *)
(* windows as intervals of it.                                             *)

TimeOfDay(dt) == dt.hh * 3600 + dt.mm * 60 + dt.ss

InWindowByClock(dt, H, D) ==
    /\ H * 3600 <= TimeOfDay(dt)
    /\ TimeOfDay(dt) < H * 3600 + D * 60

InSomeConfiguredWindow(dt) ==
    \/ InWindowByClock(dt, MorningHour, WateringMinutes)
    \/ InWindowByClock(dt, MiddayHour, WateringMinutes)
    \/ InWindowByClock(dt, EveningHour, WateringMinutes)

\* managePump() or managePumpPresentationMode() has just returned
pumpStepReturned == pc = "readAndDisplayDHT11"

\* C1: isInWateringWindow(t, H, D) is true exactly when t's time of day lies
\* in [H:00:00, H:00:00 + D minutes) of t's own date: true at H:00:00, true a
\* second before the end, false at the end.
C1_WindowIsHalfOpen ==
    probe.op = "isInWateringWindow" =>
        (probe.result <=>
            InWindowByClock(probe.currentTime, probe.startHour,
                            probe.durationMinutes))

\* C1 witness: H=6, D=5 probed at 06:05:00 answers false
C1_Witness ==
    /\ probe.op = "isInWateringWindow"
    /\ probe.startHour = 6 /\ probe.durationMinutes = 5
    /\ probe.currentTime.hh = 6 /\ probe.currentTime.mm = 5
    /\ probe.currentTime.ss = 0
    /\ ~probe.result

\* C2 (as claimed): when managePump ran with the rain indicator true, the
\* pump flag is false and the relay is commanded LOW, whatever the time and
\* whatever the relay was before.
C2_RainForcesPumpOff ==
    (pumpStepReturned /\ ~PresentationMode /\ rainIndicator) =>
        (~GW.isPumpWorking /\ relay = "LOW")

\* C3 (as claimed): after managePump or managePumpPresentationMode returned,
\* the pump flag equals the relay's commanded level, in both modes.
C3_FlagMatchesRelay ==
    pumpStepReturned => (GW.isPumpWorking <=> relay = "HIGH")

\* C4: DecideIfWateringRequired sets the pump flag to true exactly for the
\* timestamps inside the morning, midday or evening window, false outside
\* all three, and changes nothing else of the state.
C4_DecideIsUnionOfWindows ==
    probe.op = "DecideIfWateringRequired" =>
        /\ probe.after.isPumpWorking <=>
               InSomeConfiguredWindow(probe.before.currentDateTime)
        /\ probe.after = [probe.before EXCEPT
                              !.isPumpWorking = probe.after.isPumpWorking]

\* C4 witness: a timestamp inside the evening window only, decided true
C4_Witness ==
    /\ probe.op = "DecideIfWateringRequired"
    /\ probe.before.currentDateTime.hh = 21
    /\ probe.before.currentDateTime.mm = 4
    /\ probe.before.currentDateTime.ss = 59
    /\ probe.after.isPumpWorking

\* seconds 0..4 of each 10-second block of the minute
OnSeconds == { s \in 0..59 : \E k \in 0..5 : 10 * k <= s /\ s <= 10 * k + 4 }

\* C5: in presentation mode, after managePumpPresentationMode returned, the
\* relay is HIGH exactly in seconds 0..4 of each 10-second block, whatever the
\* hour and minute, inside a watering window or not.
C5_PresentationDutyCycle ==
    (pumpStepReturned /\ PresentationMode) =>
        /\ relay \in {"HIGH", "LOW"}
        /\ relay = "HIGH" <=> GW.currentDateTime.ss \in OnSeconds

\* C5 witness: the cycle restarts at second 10
C5_Witness ==
    /\ pumpStepReturned /\ PresentationMode
    /\ GW.currentDateTime.ss = 10
    /\ relay = "HIGH"

\* C6: a DHT11 read that yields not-a-number for the temperature, for the
\* humidity or for both leaves the stored humidity and temperature and LCD
\* row 1 as they were; a valid value read alongside is not stored.
C6_FailedReadKeepsState ==
    [][ ( /\ pc = "readAndDisplayDHT11"
          /\ pc' = "readAndDisplayRainSensor"
          /\ (isnan(dht'.t) \/ isnan(dht'.h)) )
        => ( /\ GW'.humidity = GW.humidity
             /\ GW'.temperatureC = GW.temperatureC
             /\ lcdRow1' = lcdRow1 ) ]_vars

\* C6 witness: a good humidity came with a NaN temperature and was not stored
C6_Witness ==
    /\ pc = "readAndDisplayRainSensor"
    /\ ~isnan(dht.h) /\ isnan(dht.t)
    /\ GW.humidity # dht.h

\* C7: if the clock does not respond, the program stays in initializeRTC for
\* ever: no later step of setup() runs, no loop() iteration runs, the relay
\* is never commanded (so never HIGH).
C7_NoClockHaltsForever ==
    /\ [](~rtcPresent =>
            /\ pc \in {"initializeRTC", "halt"}
            /\ iter = 0
            /\ relay = "FLOATING"
            /\ GW = GWInit
            /\ lcdRow0 = LcdText("", <<>>) /\ lcdRow1 = LcdText("", <<>>))
    /\ [][pc = "halt" => pc' = "halt"]_vars

\* C7 witness: the halt is reached
C7_Witness == ~rtcPresent /\ pc = "halt"

\* before the pump-management step of the first loop() iteration
beforeFirstPumpStep ==
    /\ iter = 0
    /\ pc \in {"initializeRTC", "initializeSensors", "initializeLCD",
               "setupConfig", "readAndDisplayCurrentTime", "managePump"}

\* C8: with the clock present the relay is never HIGH before the pump step
\* of the first iteration; when setup() returns the relay is LOW, the pump
\* flag false and the configuration 6, 13, 21 hours and 5 minutes.
C8_StartupLeavesPumpOff ==
    /\ (rtcPresent /\ beforeFirstPumpStep) => relay # "HIGH"
    /\ (pc = "readAndDisplayCurrentTime" /\ iter = 0) =>
          /\ relay = "LOW"
          /\ ~GW.isPumpWorking
          /\ GW.morningWateringDateTime = 6
          /\ GW.middleWateringDateTime = 13
          /\ GW.eveningWateringDateTime = 21
          /\ GW.minutesOfWateringDuration = 5

\* C8 witness: setup() has returned
C8_Witness == rtcPresent /\ pc = "readAndDisplayCurrentTime" /\ iter = 0

\* initializeRTC() has just returned
clockInitialized == pc = "initializeSensors"

\* C9 (as claimed): startup sets the clock to the build time only if the
\* clock was unset; a clock that already holds a time keeps it.
C9_SetOnlyIfUnset ==
    clockInitialized =>
        rtc = (IF rtcAtBoot.running THEN rtcAtBoot.time
                                    ELSE unixtime(buildTime))

\* C9 (amended): startup with the clock present always sets the clock to
\* the build time, whether the clock was unset or already held a time.
C9_AlwaysSetToBuildTime ==
    clockInitialized => rtc = unixtime(buildTime)

\* C9 witness: a clock that held another time has been overwritten
C9_Witness ==
    /\ clockInitialized
    /\ rtcAtBoot.running /\ rtcAtBoot.time # unixtime(buildTime)
    /\ rtc = unixtime(buildTime)

\* C10: the pump step of an iteration decides on the timestamp read in that
\* same iteration; in scheduled mode, from the return of managePump to the
\* end of the iteration, the relay is HIGH exactly when that timestamp lies
\* in one of the three windows.
C10_DecidesOnFreshTime ==
    /\ pc \in {"managePump", "readAndDisplayDHT11",
               "readAndDisplayRainSensor", "delay"}
          => GW.currentDateTime = DateTimeFromSeconds(rtc)
    /\ ( /\ ~PresentationMode
         /\ \/ pc \in {"readAndDisplayDHT11", "readAndDisplayRainSensor",
                       "delay"}
            \/ pc = "readAndDisplayCurrentTime" /\ iter > 0 )
          => /\ relay \in {"HIGH", "LOW"}
             /\ relay = "HIGH" <=> InSomeConfiguredWindow(GW.currentDateTime)

\* C10 witness: a later iteration read 06:00:00 and ends with the relay HIGH
C10_Witness ==
    /\ ~PresentationMode
    /\ pc = "delay" /\ iter > 0
    /\ GW.currentDateTime = DateTimeOf(0, 6, 0, 0)
    /\ relay = "HIGH"

\* C11: isInWateringWindow answers false for every timestamp earlier in its
\* day than H:00:00, whatever the duration; so the window H=23, D=120 is open
\* from 23:00:00 to 23:59:59 and closed from 00:00:00 on, on every date: the
\* start is anchored to the date of the timestamp asked about.
C11_NoWindowBeforeStartHour ==
    probe.op = "isInWateringWindow" =>
        /\ TimeOfDay(probe.currentTime) < probe.startHour * 3600
              => ~probe.result
        /\ (probe.startHour = 23 /\ probe.durationMinutes = 120)
              => (probe.result <=> probe.currentTime.hh = 23)

\* C11 witness: H=23, D=120 asked at 00:00:00 of the following day is closed
C11_Witness ==
    /\ probe.op = "isInWateringWindow"
    /\ probe.startHour = 23 /\ probe.durationMinutes = 120
    /\ probe.currentTime = DateTimeOf(1, 0, 0, 0)
    /\ ~probe.result

\* C12: the rain indicator is false in every iteration whatever the rain
\* sensor returned; after each pump step the pump flag and the relay level
\* are determined by the mode and the timestamp read alone, so runs with the
\* same clock readings and different rain values command the same.
C12_RainValueHasNoEffect ==
    /\ ~rainIndicator
    /\ pumpStepReturned =>
          /\ GW.isPumpWorking <=>
                (~PresentationMode /\ InSomeConfiguredWindow(GW.currentDateTime))
          /\ relay = (IF (IF PresentationMode
                          THEN GW.currentDateTime.ss \in OnSeconds
                          ELSE InSomeConfiguredWindow(GW.currentDateTime))
                      THEN "HIGH" ELSE "LOW")

\* C12 witness: the sensor returned a non-zero value in the iteration before
\* and the scheduled pump step still switched the pump on
C12_Witness ==
    /\ pumpStepReturned /\ ~PresentationMode /\ iter > 0
    /\ rainValue > 0
    /\ ~rainIndicator
    /\ GW.isPumpWorking /\ relay = "HIGH"

====
